---------------------------- MODULE Spec2Model ----------------------------
(***************************************************************************)
(* Model of the asset validation checks under ci/:                         *)
(*   check_meta_files.py, check_guid_references.py,                        *)
(*   check_layer_consistency.py, check_scene_build_settings.py.            *)
(*                                                                         *)
(* One run of one check is one behaviour.  `check` names the check that is *)
(* running, `pc` its position, `findings` the annotation() calls made so   *)
(* far, `exitCode` the value returned (NoCode while still running).        *)
(***************************************************************************)
EXTENDS Integers, Sequences, FiniteSets, Bags, TLC

VARIABLES
    check,              \* which script is running
    pc,                 \* position inside the check
    findings,           \* sequence of annotation() calls: [sev, file, line, msg, ...]
    fatal,              \* an "ERROR: ... not found" precondition message was printed
    errors,             \* the local counter `errors`
    warnings,           \* the local counter `warnings`
    exitCode,           \* return value of the check, NoCode before it returns
    \* ---- check_meta_files
    tree,               \* the file tree: path -> "file" | "dir"
    stack,              \* directories os.walk still has to visit
    missing,            \* the list `missing` (order is lost by sorted())
    orphaned,           \* the list `orphaned`
    \* ---- check_guid_references
    project,            \* which directories exist and the line 2 of every .meta in them
    known_guids,        \* the set `known_guids`
    has_package_cache,  \* the flag `has_package_cache`
    files_scanned,      \* the counter `files_scanned`
    scanned,            \* the scannable files os.walk has yielded so far
    \* ---- check_layer_consistency
    settings,           \* TagManager.asset (exists, lines) and whether Scripts/ exists
    layers,             \* the set `layers`
    sorting_layers,     \* the set `sorting_layers`
    tags,               \* the set `tags`
    in_tags,            \* parser flag
    in_layers,          \* parser flag
    in_sorting,         \* parser flag
    consumed,           \* the lines parse_tag_manager has processed so far
    scripts,            \* the .cs files os.walk has yielded so far
    \* ---- check_scene_build_settings
    manifest,           \* EditorBuildSettings.asset: exists, its scene blocks
    disk,               \* scene path -> what is on disk for it
    idx,                \* number of manifest entries processed
    probes,             \* filesystem accesses made for the entries, in order
    \* ---- run_all
    present,            \* the scripts of CHECKS that exist next to run_all.py
    results,            \* the list `results`: one [name, ran, code] per check, in order
    ran,                \* what happened to each check of the loop, in order
    summary             \* the counts of the Total line

commonVars == <<check, pc, findings, fatal, errors, warnings, exitCode>>
metaVars   == <<tree, stack, missing, orphaned>>
guidVars   == <<project, known_guids, has_package_cache, scanned>>
parseVars  == <<layers, sorting_layers, tags, in_tags, in_layers, in_sorting, consumed>>
layerVars  == <<settings, scripts>>
sceneVars  == <<manifest, disk, idx, probes>>
runVars    == <<present, results, ran, summary>>
vars       == <<commonVars, metaVars, guidVars, files_scanned, parseVars, layerVars,
                sceneVars, runVars>>

NoCode == -1

(***************************************************************************)
(* Generic helpers                                                         *)
(***************************************************************************)
StartsWith(s, p) == Len(s) >= Len(p) /\ SubSeq(s, 1, Len(p)) = p

\* lexicographic order on sequences of integers (Python string comparison)
RECURSIVE SeqLess(_, _)
SeqLess(a, b) ==
    IF b = <<>> THEN FALSE
    ELSE IF a = <<>> THEN TRUE
    ELSE IF Head(a) # Head(b) THEN Head(a) < Head(b)
    ELSE SeqLess(Tail(a), Tail(b))

RECURSIVE Flatten(_)
Flatten(ss) == IF ss = <<>> THEN <<>> ELSE Head(ss) \o Flatten(Tail(ss))

\* every ordering of the elements of a finite set
Orderings(S) ==
    {q \in [1..Cardinality(S) -> S] : \A i, j \in 1..Cardinality(S) : i # j => q[i] # q[j]}

CountSev(fs, sev) == Cardinality({i \in 1..Len(fs) : fs[i].sev = sev})


(***************************************************************************)
(* File names and paths.                                                   *)
(*                                                                         *)
(* A name is a sequence of segments: a base followed by zero or more       *)
(* ".meta" suffixes (<<"a", ".meta">> is "a.meta", <<".meta">> is the file *)
(* named just ".meta", <<>> is the empty string).  A path is the sequence  *)
(* of names below the project root (<<Assets, a, b>> is "Assets/a/b").     *)
(***************************************************************************)
MetaSuffix == ".meta"
AssetsName == <<"Assets">>

EndsWithMeta(name) == Len(name) > 0 /\ name[Len(name)] = MetaSuffix   \* fname.endswith(".meta")
AddMeta(name)      == Append(name, MetaSuffix)                         \* fname + ".meta"
StripMeta(name)    == SubSeq(name, 1, Len(name) - 1)                   \* fname[:-5]

SKIP_DIRS ==
    { <<"Library">>, <<"Temp">>, <<"obj">>, <<"Logs">>, <<"Build">>, <<"Builds">>,
      <<"MemoryCaptures">>, <<"UserSettings">>, <<".git">>, <<".vs">>, <<".vscode">>,
      <<".idea">>, <<".gradle">>, <<".beads">>, <<".claude">>, <<"ci">>, <<".github">> }

\* os.path.exists / os.path.isdir on a path below the root
Exists(t, path) == path \in DOMAIN t
IsDir(t, path)  == path \in DOMAIN t /\ t[path] = "dir"

\* os.path.exists(os.path.join(dirpath, name)): joining the empty string gives
\* "dirpath/", which names the directory itself
ExistsIn(t, dirpath, name) ==
    IF name = <<>> THEN Exists(t, dirpath) ELSE Exists(t, Append(dirpath, name))
IsDirIn(t, dirpath, name) ==
    IF name = <<>> THEN IsDir(t, dirpath) ELSE IsDir(t, Append(dirpath, name))

\* the names os.walk lists in dirpath, by kind
Listing(t, dirpath, kind) ==
    { p[Len(p)] : p \in { q \in DOMAIN t : /\ Len(q) = Len(dirpath) + 1
                                          /\ SubSeq(q, 1, Len(dirpath)) = dirpath
                                          /\ t[q] = kind } }

\* character codes of the segments used, for sorted() on the relative paths
SegCodes(seg) ==
    CASE seg = "Assets"  -> <<65, 115, 115, 101, 116, 115>>
      [] seg = "Library" -> <<76, 105, 98, 114, 97, 114, 121>>
      [] seg = ".meta"   -> <<46, 109, 101, 116, 97>>
      [] seg = "a"       -> <<97>>
      [] seg = "b"       -> <<98>>
      [] seg = "c"       -> <<99>>

NameCodes(name) == Flatten([i \in 1..Len(name) |-> SegCodes(name[i])])

\* the relative path as a string: names joined by "/" (code 47)
RelStr(path) ==
    Flatten([i \in 1..Len(path) |->
                IF i = 1 THEN NameCodes(path[i]) ELSE <<47>> \o NameCodes(path[i])])

\* sorted(list) of relative paths, the list given as a bag
RECURSIVE SortedPaths(_)
SortedPaths(B) ==
    IF BagToSet(B) = {} THEN <<>>
    ELSE LET m == CHOOSE p \in BagToSet(B) :
                     \A q \in BagToSet(B) : ~SeqLess(RelStr(q), RelStr(p))
         IN  <<m>> \o SortedPaths(B (-) SetToBag({m}))

(***************************************************************************)
(* check_meta_files.py                                                     *)
(***************************************************************************)
\* line 33: dirnames[:] = [d for d in dirnames if d not in SKIP_DIRS]
WalkDirnames(t, dirpath) == { d \in Listing(t, dirpath, "dir") : d \notin SKIP_DIRS }

\* lines 38-44: every non-meta file without fname + ".meta"
MissingFiles(t, dirpath) ==
    { Append(dirpath, f) : f \in { g \in Listing(t, dirpath, "file") :
                                     /\ ~EndsWithMeta(g)
                                     /\ ~ExistsIn(t, dirpath, AddMeta(g)) } }

\* lines 47-54: every .meta file whose asset is neither a file nor a directory
OrphanedMetas(t, dirpath) ==
    { Append(dirpath, f) : f \in { g \in Listing(t, dirpath, "file") :
                                     /\ EndsWithMeta(g)
                                     /\ ~ExistsIn(t, dirpath, StripMeta(g))
                                     /\ ~IsDirIn(t, dirpath, StripMeta(g)) } }

\* the loop over the subdirectories left out
NoDirCheck(t, dirpath) == {}

\* lines 57-61: every walked subdirectory without dname + ".meta"
MissingDirs(t, dirpath) ==
    { Append(dirpath, d) : d \in { e \in WalkDirnames(t, dirpath) :
                                     ~ExistsIn(t, dirpath, AddMeta(e)) } }

\* lines 66-75: the annotations, missing first (errors), then orphaned (warnings)
MetaSeverityMissing == "error"
OrphanedAsError == "error"
MetaSeverityOrphaned == "warning"

MetaFindings(miss, orph) ==
    [i \in 1..Len(miss) |->
        [sev |-> MetaSeverityMissing, file |-> miss[i], msg |-> "Missing .meta file"]]
    \o
    [i \in 1..Len(orph) |->
        [sev |-> MetaSeverityOrphaned, file |-> orph[i], msg |-> "Orphaned .meta"]]

\* a threshold that is off by one
ExitCodeOffByOne(errs) == IF errs > 1 THEN 1 ELSE 0

\* line 82
MetaExitCode(errs) == IF errs > 0 THEN 1 ELSE 0

\* lines 23-29
MetaStart ==
    /\ check = "meta" /\ pc = "start"
    /\ IF ~IsDir(tree, <<AssetsName>>)
       THEN /\ fatal' = TRUE
            /\ exitCode' = 1
            /\ pc' = "done"
            /\ UNCHANGED stack
       ELSE /\ stack' = << <<AssetsName>> >>
            /\ pc' = "walk"
            /\ UNCHANGED <<fatal, exitCode>>
    /\ missing' = EmptyBag
    /\ orphaned' = EmptyBag
    /\ UNCHANGED <<runVars, check, findings, errors, warnings, tree, guidVars, files_scanned,
                   parseVars, layerVars, sceneVars>>

\* lines 31-61: one iteration of the os.walk loop (one directory, top-down; the
\* order in which the subdirectories are listed is the file system's)
MetaWalkDir ==
    /\ check = "meta" /\ pc = "walk" /\ stack # <<>>
    /\ LET dirpath == Head(stack)
           subdirs == { Append(dirpath, d) : d \in WalkDirnames(tree, dirpath) }
       IN  /\ missing' = missing (+) SetToBag(MissingFiles(tree, dirpath))
                                 (+) SetToBag(MissingDirs(tree, dirpath))
           /\ orphaned' = orphaned (+) SetToBag(OrphanedMetas(tree, dirpath))
           /\ \E order \in Orderings(subdirs) : stack' = order \o Tail(stack)
    /\ UNCHANGED <<runVars, commonVars, tree, guidVars, files_scanned, parseVars, layerVars,
                   sceneVars>>

\* lines 63-82
MetaReport ==
    /\ check = "meta" /\ pc = "walk" /\ stack = <<>>
    /\ LET miss == SortedPaths(missing)
           orph == SortedPaths(orphaned)
       IN  /\ findings' = MetaFindings(miss, orph)
           /\ errors' = Len(miss)
           /\ exitCode' = MetaExitCode(Len(miss))
    /\ pc' = "done"
    /\ UNCHANGED <<runVars, check, fatal, warnings, metaVars, guidVars, files_scanned, parseVars,
                   layerVars, sceneVars>>

(***************************************************************************)
(* Input trees for check_meta_files: at most MaxEntries entries below      *)
(* Assets/, two levels deep.                                               *)
(***************************************************************************)
MaxEntries == 4

TopNames == { <<"a">>, <<"a", MetaSuffix>>, <<"Library">>, <<"Library", MetaSuffix>>,
              <<MetaSuffix>> }
SubNames == { <<"b">>, <<"b", MetaSuffix>> }

CandidatePaths ==
    { <<AssetsName, n>> : n \in TopNames }
    \cup { <<AssetsName, d, m>> : d \in { <<"a">>, <<"Library">> }, m \in SubNames }

Parent(path) == SubSeq(path, 1, Len(path) - 1)

TreesOver(P) ==
    { t \in [P \cup { <<AssetsName>> } -> {"file", "dir"}] :
        /\ t[<<AssetsName>>] = "dir"
        /\ \A p \in P : t[Parent(p)] = "dir" }

Trees ==
    UNION { TreesOver(P) : P \in { Q \in SUBSET CandidatePaths :
                                     /\ Cardinality(Q) <= MaxEntries
                                     /\ \A p \in Q : Len(p) > 2 => Parent(p) \in Q } }

NoAssetsTrees == { [p \in {} |-> "file"], [p \in { <<AssetsName>> } |-> "file"] }


(***************************************************************************)
(* check_guid_references.py                                                *)
(*                                                                         *)
(* A GUID is a sequence of 32 one-character strings.  A scanned file is    *)
(* given by what GUID_REF_PATTERN.finditer finds in it: for every line,    *)
(* the sequence of identifiers matched on that line.                       *)
(***************************************************************************)
GuidLen   == 32          \* [0-9a-f]{32}
PrefixLen == 16          \* length of the entry of SKIP_GUID_PREFIXES
Line2Len  == 38          \* len(line2) >= 38, line2[6:38]

Rep(c, n) == [i \in 1..n |-> c]

NULL_GUID          == Rep("0", GuidLen)
SKIP_GUID_PREFIXES == { Rep("0", PrefixLen) }

BuiltinGuid  == Rep("0", PrefixLen) \o <<"f">> \o Rep("0", GuidLen - PrefixLen - 1)
NearNullGuid == Rep("0", PrefixLen - 1) \o <<"1">> \o Rep("0", GuidLen - PrefixLen)
GuidA        == Rep("a", GuidLen)
GuidB        == Rep("b", GuidLen)

GuidKey == <<"g", "u", "i", "d", ":", " ">>

SCANNABLE_EXTENSIONS ==
    { ".prefab", ".unity", ".asset", ".controller", ".overrideController",
      ".mat", ".playable", ".signal", ".spriteatlasv2", ".lighting" }

\* str.lower() on the extensions used
Lower(ext) ==
    CASE ext = ".PREFAB" -> ".prefab"
      [] ext = ".overrideController" -> ".overridecontroller"
      [] OTHER -> ext

\* lines 41-53: the index of one root, from line 2 of each of its .meta files
build_guid_index(metaLines) ==
    { SubSeq(l, Len(GuidKey) + 1, Line2Len) :
        l \in { m \in metaLines : StartsWith(m, GuidKey) /\ Len(m) >= Line2Len } }

\* the prefix test left out
OnlyNullSkipped(guid) == guid = NULL_GUID

\* lines 67-70: the references that are never looked up
IsSkippedGuid(guid) ==
    \/ guid = NULL_GUID
    \/ \E p \in SKIP_GUID_PREFIXES : StartsWith(guid, p)

\* lines 65-72 for one line: the (line_num, guid) pairs appended to `broken`
BrokenInLine(line_num, refs, known) ==
    LET keep(g) == ~IsSkippedGuid(g) /\ g \notin known
        pairs   == [i \in 1..Len(refs) |-> [line |-> line_num, guid |-> refs[i]]]
        bad(pr) == keep(pr.guid)
    IN  SelectSeq(pairs, bad)

\* lines 59-75: an unreadable file (OSError) gives no pairs
scan_file_for_guids(f, known) ==
    IF ~f.readable THEN <<>>
    ELSE Flatten([n \in 1..Len(f.lines) |-> BrokenInLine(n, f.lines[n], known)])

\* the severity also raised whenever the index is not empty
SeverityByIndex(hasCache) == IF hasCache \/ known_guids # {} THEN "error" ELSE "warning"

\* lines 128-139: the severity of an unresolved reference
GuidSeverity(hasCache) == IF hasCache THEN "error" ELSE "warning"

\* lines 92-104
GuidIndex(pr) ==
    build_guid_index(pr.assetsMeta)
    \cup (IF pr.packages THEN build_guid_index(pr.packagesMeta) ELSE {})
    \cup (IF pr.cache THEN build_guid_index(pr.cacheMeta) ELSE {})

\* line 152
GuidExitCode(errs) == IF errs > 0 THEN 1 ELSE 0

MaxFiles == 2

\* lines 79-108
GuidStart ==
    /\ check = "guid" /\ pc = "start"
    /\ IF ~project.assets \/ ~project.scanRoot
       THEN /\ fatal' = TRUE
            /\ exitCode' = 1
            /\ pc' = "done"
            /\ UNCHANGED <<known_guids, has_package_cache>>
       ELSE /\ known_guids' = GuidIndex(project)
            /\ has_package_cache' = project.cache
            /\ pc' = "scan"
            /\ UNCHANGED <<fatal, exitCode>>
    /\ UNCHANGED <<runVars, check, findings, errors, warnings, project, scanned, files_scanned,
                   metaVars, parseVars, layerVars, sceneVars>>

\* lines 116-139: one file yielded by os.walk(scan_dir)
GuidScanFile(f) ==
    /\ check = "guid" /\ pc = "scan" /\ Len(scanned) < MaxFiles
    /\ scanned' = Append(scanned, f)
    /\ IF Lower(f.ext) \notin SCANNABLE_EXTENSIONS
       THEN UNCHANGED <<findings, errors, warnings, files_scanned>>
       ELSE LET broken == scan_file_for_guids(f, known_guids)
                sev    == GuidSeverity(has_package_cache)
                where  == <<Len(scanned) + 1, f.name>>
            IN  /\ files_scanned' = files_scanned + 1
                /\ findings' = findings \o
                       [i \in 1..Len(broken) |->
                           [sev |-> sev, file |-> where, line |-> broken[i].line,
                            guid |-> broken[i].guid,
                            msg |-> IF has_package_cache THEN "Broken GUID reference"
                                    ELSE "Unresolvable GUID (package?)"]]
                /\ errors' = errors + (IF has_package_cache THEN Len(broken) ELSE 0)
                /\ warnings' = warnings + (IF has_package_cache THEN 0 ELSE Len(broken))
    /\ UNCHANGED <<runVars, check, pc, fatal, exitCode, project, known_guids, has_package_cache,
                   metaVars, parseVars, layerVars, sceneVars>>

\* lines 141-152
GuidFinish ==
    /\ check = "guid" /\ pc = "scan"
    /\ exitCode' = GuidExitCode(errors)
    /\ pc' = "done"
    /\ UNCHANGED <<runVars, check, findings, fatal, errors, warnings, guidVars, files_scanned,
                   metaVars, parseVars, layerVars, sceneVars>>

(***************************************************************************)
(* Inputs of check_guid_references                                         *)
(***************************************************************************)
Line2(guid) == GuidKey \o guid \o <<"\n">>

\* a second line without the space after the colon: not indexed
NoSpaceLine2(guid) == <<"g", "u", "i", "d", ":">> \o guid \o <<"\n">>

Projects ==
    [ assets : BOOLEAN, scanRoot : BOOLEAN, packages : BOOLEAN, cache : BOOLEAN,
      assetsMeta   : { {}, {Line2(GuidA)}, {Line2(GuidA), NoSpaceLine2(GuidB)},
                       {Line2(NULL_GUID), Line2(BuiltinGuid)} },
      packagesMeta : { {Line2(GuidB)} },
      cacheMeta    : { {}, {Line2(GuidB)} } ]

ScanFile(name, ext, readable, lines) ==
    [name |-> name, ext |-> ext, readable |-> readable, lines |-> lines]

ScanCatalogue ==
    { ScanFile("Level", ".unity", TRUE, << <<GuidA>>, <<NULL_GUID, GuidB>> >>),
      ScanFile("Hero", ".PREFAB", TRUE, << <<GuidB, GuidB>>, <<BuiltinGuid>> >>),
      ScanFile("Skin", ".mat", TRUE, << <<NULL_GUID>>, <<>>, <<BuiltinGuid>> >>),
      ScanFile("Near", ".asset", TRUE, << <<NearNullGuid, GuidA>> >>),
      ScanFile("Locked", ".asset", FALSE, << <<GuidB>> >>),
      ScanFile("Readme", ".txt", TRUE, << <<GuidB>> >>) }


(***************************************************************************)
(* check_scene_build_settings.py                                           *)
(*                                                                         *)
(* The manifest is given by what scene_block.findall returns: the sequence *)
(* of (enabled, path, guid) blocks in file order.  For every scene path    *)
(* the disk holds whether the scene file exists, whether its .meta exists, *)
(* and what META_GUID_PATTERN finds in the first 512 characters of it.     *)
(***************************************************************************)
NoGuid == <<>>          \* META_GUID_PATTERN.search found nothing
SettingsRel == "ProjectSettings/EditorBuildSettings.asset"

SceneError(k, entry, msg, found) ==
    [sev |-> "error", file |-> SettingsRel, entry |-> k, path |-> entry.path, msg |-> msg,
     expected |-> entry.guid, found |-> found]

\* the `continue` after a missing scene file left out: the .meta is looked for too
SceneEntryCheckNoContinue(k, entry, d) ==
    LET first == IF ~d.scene
                 THEN << SceneError(k, entry, "Build scene not found on disk", NoGuid) >>
                 ELSE <<>>
    IN  IF ~d.meta
        THEN [probes |-> << <<k, "exists_scene">>, <<k, "exists_meta">> >>,
              findings |-> first \o
                           << SceneError(k, entry, "Scene .meta file missing", NoGuid) >>]
        ELSE [probes |-> << <<k, "exists_scene">>, <<k, "exists_meta">>,
                            <<k, "read_meta">> >>,
              findings |-> first \o
                  (IF d.guid = NoGuid
                   THEN << SceneError(k, entry, "Cannot read GUID", NoGuid) >>
                   ELSE IF d.guid # entry.guid
                   THEN << SceneError(k, entry, "GUID mismatch", d.guid) >>
                   ELSE <<>>)]

\* lines 55-94: one iteration of the loop over `scenes`: the filesystem accesses made
\* and the annotations emitted for entry number k
SceneEntryCheck(k, entry, d) ==
    IF ~d.scene
    THEN [probes |-> << <<k, "exists_scene">> >>,
          findings |-> << SceneError(k, entry, "Build scene not found on disk", NoGuid) >>]
    ELSE IF ~d.meta
    THEN [probes |-> << <<k, "exists_scene">>, <<k, "exists_meta">> >>,
          findings |-> << SceneError(k, entry, "Scene .meta file missing", NoGuid) >>]
    ELSE LET read == << <<k, "exists_scene">>, <<k, "exists_meta">>, <<k, "read_meta">> >>
         IN  IF d.guid = NoGuid
             THEN [probes |-> read,
                   findings |-> << SceneError(k, entry, "Cannot read GUID", NoGuid) >>]
             ELSE IF d.guid # entry.guid
             THEN [probes |-> read,
                   findings |-> << SceneError(k, entry, "GUID mismatch", d.guid) >>]
             ELSE [probes |-> read, findings |-> <<>>]

\* line 101
SceneExitCode(errs) == IF errs > 0 THEN 1 ELSE 0

\* lines 25-53
SceneStart ==
    /\ check = "scene" /\ pc = "start"
    /\ IF ~manifest.exists
       THEN /\ fatal' = TRUE
            /\ exitCode' = 1
            /\ pc' = "done"
            /\ UNCHANGED findings
       ELSE IF manifest.scenes = <<>>
       THEN /\ findings' = Append(findings,
                               [sev |-> "warning", file |-> SettingsRel, entry |-> 0,
                                msg |-> "No scenes found in build settings"])
            /\ exitCode' = 0
            /\ pc' = "done"
            /\ UNCHANGED fatal
       ELSE /\ pc' = "loop"
            /\ UNCHANGED <<fatal, exitCode, findings>>
    /\ UNCHANGED <<runVars, check, errors, warnings, sceneVars, metaVars, guidVars, files_scanned,
                   parseVars, layerVars>>

\* lines 55-94
SceneEntry ==
    /\ check = "scene" /\ pc = "loop" /\ idx < Len(manifest.scenes)
    /\ LET k == idx + 1
           r == SceneEntryCheck(k, manifest.scenes[k], disk[manifest.scenes[k].path])
       IN  /\ probes' = probes \o r.probes
           /\ findings' = findings \o r.findings
           /\ errors' = errors + Len(r.findings)
           /\ idx' = k
    /\ UNCHANGED <<runVars, check, pc, fatal, warnings, exitCode, manifest, disk, metaVars,
                   guidVars, files_scanned, parseVars, layerVars>>

\* lines 96-101
SceneFinish ==
    /\ check = "scene" /\ pc = "loop" /\ idx = Len(manifest.scenes)
    /\ exitCode' = SceneExitCode(errors)
    /\ pc' = "done"
    /\ UNCHANGED <<runVars, check, findings, fatal, errors, warnings, sceneVars, metaVars,
                   guidVars, files_scanned, parseVars, layerVars>>

(***************************************************************************)
(* Inputs of check_scene_build_settings                                    *)
(***************************************************************************)
MaxScenes == 2

ScenePaths == { "Assets/Scenes/Main.unity", "Assets/Scenes/Boss.unity" }

SceneEntries == [enabled : {"0", "1"}, path : ScenePaths, guid : {GuidA, GuidB}]

NoManifest == [exists |-> FALSE, scenes |-> <<>>]

Manifests ==
    {NoManifest}
    \cup { [exists |-> TRUE, scenes |-> sc] :
              sc \in UNION { [1..n -> SceneEntries] : n \in 0..MaxScenes } }

DiskStates ==
    { [scene |-> FALSE, meta |-> FALSE, guid |-> NoGuid],
      [scene |-> FALSE, meta |-> TRUE,  guid |-> GuidA],
      [scene |-> TRUE,  meta |-> FALSE, guid |-> NoGuid],
      [scene |-> TRUE,  meta |-> TRUE,  guid |-> NoGuid],
      [scene |-> TRUE,  meta |-> TRUE,  guid |-> GuidA],
      [scene |-> TRUE,  meta |-> TRUE,  guid |-> GuidB] }


(***************************************************************************)
(* check_layer_consistency.py: parse_tag_manager                           *)
(*                                                                         *)
(* A line of TagManager.asset is a sequence of tokens; " " is one blank,   *)
(* "-" one dash, and every other token a run of characters without blanks, *)
(* dashes or quotes.  The names parsed from it are token sequences too     *)
(* (<<"Default">>, <<"name:", " ", "Default">>).                           *)
(***************************************************************************)
RECURSIVE LStrip(_)
LStrip(l) == IF l # <<>> /\ Head(l) = " " THEN LStrip(Tail(l)) ELSE l

RECURSIVE RStrip(_)
RStrip(l) == IF l # <<>> /\ l[Len(l)] = " " THEN RStrip(SubSeq(l, 1, Len(l) - 1)) ELSE l

Strip(l) == RStrip(LStrip(l))                                    \* str.strip()

Contains(l, tok) == \E i \in 1..Len(l) : l[i] = tok              \* tok in stripped

Drop(l, n) == SubSeq(l, n + 1, Len(l))                           \* stripped[n:]

\* re.match(r"-\s*name:\s*(.+)", stripped): NoMatch, or group(1)
NoMatch == <<>>
SortingNameMatch(stripped) ==
    IF stripped = <<>> \/ Head(stripped) # "-" THEN NoMatch
    ELSE LET afterDash == LStrip(Tail(stripped))
         IN  IF afterDash = <<>> \/ Head(afterDash) # "name:" THEN NoMatch
             ELSE LET rest == LStrip(Tail(afterDash))
                  IN  IF rest = <<>> THEN NoMatch ELSE rest

\* lines 48-53
ParserInit ==
    [layers |-> {}, sorting_layers |-> {}, tags |-> {},
     in_tags |-> FALSE, in_layers |-> FALSE, in_sorting |-> FALSE]

\* the inline "[]" not handled
TagsHeaderAlwaysItemized(st, stripped) ==
    [st EXCEPT !.in_tags = TRUE, !.in_layers = FALSE, !.in_sorting = FALSE]

\* lines 59-66
TagsHeader(st, stripped) ==
    [st EXCEPT !.in_tags = ~Contains(stripped, "[]"),
               !.in_layers = FALSE,
               !.in_sorting = FALSE]

\* in_tags not reset by the layers header
LayersHeaderKeepsTags(st) ==
    [st EXCEPT !.in_layers = TRUE, !.in_sorting = FALSE]

\* lines 69-73
LayersHeader(st) ==
    [st EXCEPT !.in_layers = TRUE, !.in_tags = FALSE, !.in_sorting = FALSE]

\* in_layers not reset by the sorting layers header
SortingHeaderKeepsLayers(st) ==
    [st EXCEPT !.in_sorting = TRUE, !.in_tags = FALSE]

\* lines 76-80
SortingHeader(st) ==
    [st EXCEPT !.in_sorting = TRUE, !.in_layers = FALSE, !.in_tags = FALSE]

\* lines 83-85
RenderingHeader(st) == [st EXCEPT !.in_sorting = FALSE]

\* lines 87-90
TagsContent(st, stripped) ==
    IF st.in_tags /\ StartsWith(stripped, <<"-", " ">>)
    THEN LET tag_val == Strip(Drop(stripped, 2))
         IN  IF tag_val # <<>> THEN [st EXCEPT !.tags = @ \cup {tag_val}] ELSE st
    ELSE st

\* lines 92-98
LayersContent(st, stripped) ==
    IF st.in_layers
    THEN IF StartsWith(stripped, <<"-", " ">>)
         THEN LET layer_name == Strip(Drop(stripped, 2))
              IN  IF layer_name # <<>> THEN [st EXCEPT !.layers = @ \cup {layer_name}]
                  ELSE st
         ELSE IF ~StartsWith(stripped, <<"-">>)
         THEN [st EXCEPT !.in_layers = FALSE]
         ELSE st
    ELSE st

\* lines 100-103
SortingContent(st, stripped) ==
    IF st.in_sorting /\ SortingNameMatch(stripped) # NoMatch
    THEN [st EXCEPT !.sorting_layers = @ \cup {Strip(SortingNameMatch(stripped))}]
    ELSE st

\* lines 55-103: the body of the loop for one line
ParseLine(st, line) ==
    LET stripped == Strip(line)
    IN  IF StartsWith(stripped, <<"tags:">>) THEN TagsHeader(st, stripped)
        ELSE IF stripped = <<"layers:">> THEN LayersHeader(st)
        ELSE IF stripped = <<"m_SortingLayers:">> THEN SortingHeader(st)
        ELSE IF StartsWith(stripped, <<"m_RenderingLayers:">>) THEN RenderingHeader(st)
        ELSE SortingContent(LayersContent(TagsContent(st, stripped), stripped), stripped)

\* lines 47-105: parse_tag_manager on the lines of a file
RECURSIVE ParseFrom(_, _)
ParseFrom(st, lines) ==
    IF lines = <<>> THEN st ELSE ParseFrom(ParseLine(st, Head(lines)), Tail(lines))

parse_tag_manager(lines) == ParseFrom(ParserInit, lines)

ParserState ==
    [layers |-> layers, sorting_layers |-> sorting_layers, tags |-> tags,
     in_tags |-> in_tags, in_layers |-> in_layers, in_sorting |-> in_sorting]

SetParser(st) ==
    /\ layers' = st.layers
    /\ sorting_layers' = st.sorting_layers
    /\ tags' = st.tags
    /\ in_tags' = st.in_tags
    /\ in_layers' = st.in_layers
    /\ in_sorting' = st.in_sorting

MaxLines == 4

\* lines 55-103: parse_tag_manager reads the next line of the file
ParseStep(line) ==
    /\ check = "parse" /\ pc = "lines" /\ Len(consumed) < MaxLines
    /\ SetParser(ParseLine(ParserState, line))
    /\ consumed' = Append(consumed, line)
    /\ UNCHANGED <<runVars, commonVars, metaVars, guidVars, files_scanned, layerVars, sceneVars>>

\* line 105: end of file, the three sets are returned
ParseReturn ==
    /\ check = "parse" /\ pc = "lines"
    /\ pc' = "done"
    /\ UNCHANGED <<runVars, check, findings, fatal, errors, warnings, exitCode, metaVars, guidVars,
                   files_scanned, parseVars, layerVars, sceneVars>>

(***************************************************************************)
(* Lines of TagManager.asset                                               *)
(***************************************************************************)
Indent(l)  == <<" ", " ">> \o l
Bullet(w)  == Indent(<<"-", " ", w>>)

Lines ==
    { Indent(<<"tags:">>),                              \*   tags:
      <<"tags:", " ", "[]">>,                           \* tags: []
      Indent(<<"layers:">>),                            \*   layers:
      Indent(<<"m_SortingLayers:">>),                   \*   m_SortingLayers:
      Indent(<<"m_RenderingLayers:">>),                 \*   m_RenderingLayers:
      Bullet("Default"),                                \*   - Default
      Bullet("Player"),                                 \*   - Player
      Indent(<<"-", " ">>),                             \*   -        (unnamed slot)
      Indent(<<"-", " ", "name:", " ", "Default">>),    \*   - name: Default
      Indent(<<"uniqueID:", " ", "1">>),                \*   uniqueID: 1
      <<"TagManager:">>,                                \* TagManager:
      <<"-", "-", "-">> }                               \* ---


(***************************************************************************)
(* check_layer_consistency.py: scan_scripts, check_layer_consistency       *)
(*                                                                         *)
(* A script is given by its directory below the root (a sequence of path   *)
(* segments), its file name with the extension of that name, and, for      *)
(* every line, the references the four patterns match                      *)
(* on it, in textual order: [shape, args], where args are the quoted       *)
(* arguments of the call (one for every shape but GetMask).                *)
(***************************************************************************)
BUILTIN_TAGS ==
    { <<"Untagged">>, <<"Respawn">>, <<"Finish">>, <<"EditorOnly">>, <<"MainCamera">>,
      <<"Player">>, <<"GameController">>, <<"Enemy">> }

EDITOR_PATH_SEGMENTS == {"Editor", "editor"}

\* a substring test on the path instead of a test on its segments
EditorBySubstring(path) ==
    \E i \in 1..Len(path) : path[i] \in EDITOR_PATH_SEGMENTS \cup {"EditorTools"}

\* lines 108-111
is_editor_script(path) == \E i \in 1..Len(path) : path[i] \in EDITOR_PATH_SEGMENTS

\* line 137
ScriptLevel(path) == IF is_editor_script(path) THEN "warning" ELSE "error"

\* line 125
AllTags(tagSet) == tagSet \cup BUILTIN_TAGS

\* only group(1) of every match taken
FirstArgOnly(refs, shape) ==
    LET ofShape(r) == r.shape = shape
        sel == SelectSeq(refs, ofShape)
    IN  [i \in 1..Len(sel) |-> sel[i].args[1]]

\* the names a pattern extracts from one line, in match order
\* (lines 148-149, 159-162, 172-173, 183-184)
ExtractedNames(refs, shape) ==
    LET ofShape(r) == r.shape = shape
        sel == SelectSeq(refs, ofShape)
    IN  Flatten([i \in 1..Len(sel) |->
                    IF shape = "GetMask" THEN sel[i].args ELSE <<sel[i].args[1]>>])

\* the annotations for the names that are not in the set they are checked against
Undefined(level, where, line_num, names, defined, kind) ==
    LET notDefined(n) == n \notin defined
        bad == SelectSeq(names, notDefined)
    IN  [i \in 1..Len(bad) |->
            [sev |-> level, file |-> where, line |-> line_num, kind |-> kind,
             name |-> bad[i]]]

\* lines 146-191 for one line
LineFindings(level, where, line_num, refs, layerSet, sortingSet, tagSet) ==
    Undefined(level, where, line_num, ExtractedNames(refs, "NameToLayer"), layerSet, "Layer")
    \o Undefined(level, where, line_num, ExtractedNames(refs, "GetMask"), layerSet, "Layer")
    \o Undefined(level, where, line_num, ExtractedNames(refs, "sortingLayerName"),
                 sortingSet, "Sorting layer")
    \o Undefined(level, where, line_num, ExtractedNames(refs, "CompareTag"),
                 AllTags(tagSet), "Tag")

\* line 131: fname.endswith(".cs")
IsCs(f) == f.ext = ".cs"

\* line 135: rel_path, as its segments
RelPath(f) == Append(f.dir, f.file)

\* lines 134-191 for one .cs file
ScriptFindings(where, f, layerSet, sortingSet, tagSet) ==
    IF ~f.readable THEN <<>>
    ELSE Flatten([n \in 1..Len(f.lines) |->
                    LineFindings(ScriptLevel(RelPath(f)), where, n, f.lines[n],
                                 layerSet, sortingSet, tagSet)])

\* lines 153-156: which counter an annotation of this file is added to
CountsAsWarning(path) == is_editor_script(path)

\* line 219
LayerExitCode(errs) == IF errs > 0 THEN 1 ELSE 0


ScriptsDir == <<"Assets", "_Project", "Scripts">>

\* lines 116-119: the directory that is walked
WalkRoot(hasScriptsDir) == IF hasScriptsDir THEN ScriptsDir ELSE <<"Assets">>

MaxScripts == 2

\* lines 198-207, with parse_tag_manager (lines 37-105)
LayerParse ==
    /\ check = "layer" /\ pc = "start"
    /\ IF ~settings.exists
       THEN /\ fatal' = TRUE
            /\ exitCode' = 1
            /\ pc' = "done"
            /\ UNCHANGED parseVars
       ELSE /\ SetParser(parse_tag_manager(settings.lines))
            /\ consumed' = settings.lines
            /\ pc' = "scan"
            /\ UNCHANGED <<fatal, exitCode>>
    /\ UNCHANGED <<runVars, check, findings, errors, warnings, layerVars, metaVars, guidVars,
                   files_scanned, sceneVars>>

\* lines 130-191: one file yielded by os.walk(scripts_dir)
LayerScanScript(f) ==
    /\ check = "layer" /\ pc = "scan" /\ Len(scripts) < MaxScripts
    /\ StartsWith(f.dir, WalkRoot(settings.scriptsDir))
    /\ scripts' = Append(scripts, f)
    /\ IF ~IsCs(f)
       THEN UNCHANGED <<findings, errors, warnings, files_scanned>>
       ELSE LET where == <<Len(scripts) + 1, RelPath(f)>>
                new   == ScriptFindings(where, f, layers, sorting_layers, tags)
            IN  /\ files_scanned' = files_scanned + 1
                /\ findings' = findings \o new
                /\ errors' = errors + (IF CountsAsWarning(RelPath(f)) THEN 0 ELSE Len(new))
                /\ warnings' = warnings + (IF CountsAsWarning(RelPath(f)) THEN Len(new) ELSE 0)
    /\ UNCHANGED <<runVars, check, pc, fatal, exitCode, settings, parseVars, metaVars, guidVars,
                   sceneVars>>

\* lines 193-194, 210-219
LayerFinish ==
    /\ check = "layer" /\ pc = "scan"
    /\ exitCode' = LayerExitCode(errors)
    /\ pc' = "done"
    /\ UNCHANGED <<runVars, check, findings, fatal, errors, warnings, layerVars, parseVars,
                   files_scanned, metaVars, guidVars, sceneVars>>

(***************************************************************************)
(* Inputs of check_layer_consistency                                       *)
(***************************************************************************)
FullSettings ==
    << <<"TagManager:">>,
       Indent(<<"tags:">>), Bullet("Collectible"),
       Indent(<<"layers:">>), Bullet("Default"), Indent(<<"-", " ">>), Bullet("Player"),
       Indent(<<"m_SortingLayers:">>), Indent(<<"-", " ", "name:", " ", "Default">>),
       Indent(<<"uniqueID:", " ", "1">>),
       Indent(<<"m_RenderingLayers:">>), Bullet("Light") >>

NoTagsSettings ==
    << Indent(<<"tags:", " ", "[]">>), Indent(<<"layers:">>), Bullet("Default"),
       Bullet("Player") >>

OtherSettings ==
    << Indent(<<"layers:">>), Bullet("Water"), Indent(<<"tags:">>), Bullet("Hazard") >>

SettingsFiles ==
    [ exists : {TRUE}, lines : {<<>>, FullSettings, NoTagsSettings, OtherSettings},
      scriptsDir : BOOLEAN ]
    \cup [ exists : {FALSE}, lines : {<<>>}, scriptsDir : BOOLEAN ]

Ref(shape, args) == [shape |-> shape, args |-> args]

Script(dir, file, ext, readable, lines) ==
    [dir |-> dir, file |-> file, ext |-> ext, readable |-> readable, lines |-> lines]

ScriptCatalogue ==
    { Script(ScriptsDir, "Game.cs", ".cs", TRUE,
             << <<Ref("NameToLayer", << <<"Enemy">> >>)>>,
                <<Ref("GetMask", << <<"Default">>, <<"Player">> >>)>> >>),
      Script(ScriptsDir, "Hud.cs", ".cs", TRUE,
             << <<Ref("CompareTag", << <<"Collectible">> >>),
                  Ref("CompareTag", << <<"Hazard">> >>)>>,
                <<Ref("CompareTag", << <<"Enemy">> >>)>> >>),
      Script(ScriptsDir \o <<"Editor">>, "Tool.cs", ".cs", TRUE,
             << <<Ref("CompareTag", << <<"Hazard">> >>)>>,
                <<Ref("GetMask", << <<"Default">>, <<"Water">>, <<"Water">> >>)>> >>),
      Script(ScriptsDir, "Fx.cs", ".cs", TRUE,
             << <<Ref("sortingLayerName", << <<"Default">> >>),
                  Ref("GetMask", << <<"Player">>, <<"Enemy">> >>),
                  Ref("sortingLayerName", << <<"Player">> >>),
                  Ref("NameToLayer", << <<"Water">> >>)>> >>),
      Script(ScriptsDir \o <<"EditorTools">>, "Gizmo.cs", ".cs", TRUE,
             << <<Ref("NameToLayer", << <<"Enemy">> >>)>> >>),
      Script(<<"Assets", "Plugins", "editor">>, "Bake.cs", ".cs", TRUE,
             << <<Ref("sortingLayerName", << <<"Foreground">> >>)>> >>),
      Script(ScriptsDir, "Broken.cs", ".cs", FALSE,
             << <<Ref("CompareTag", << <<"Hazard">> >>)>> >>),
      Script(ScriptsDir \o <<"Editor">>, "Notes.txt", ".txt", TRUE,
             << <<Ref("CompareTag", << <<"Hazard">> >>)>> >>) }

(***************************************************************************)
(* run_all.py: main                                                        *)
(*                                                                         *)
(* An entry of `results` is [name, isNone, code]: isNone is the code None  *)
(* of a skipped check (its code field is then 0 and unused).  What a child *)
(* process does is an input of every iteration: it exits with some return *)
(* code, it runs into the timeout, or subprocess.run raises.               *)
(***************************************************************************)
\* lines 10-15
CHECKS ==
    << [name |-> "Meta File Integrity",    script |-> "check_meta_files.py"],
       [name |-> "GUID References",        script |-> "check_guid_references.py"],
       [name |-> "Layer/Tag Consistency",  script |-> "check_layer_consistency.py"],
       [name |-> "Build Scene Validation", script |-> "check_scene_build_settings.py"] >>

\* result.returncode: 0 and 1 from the checks, 2 from the interpreter, a negative
\* value when the child is killed by a signal
ReturnCodes == {0, 1, 2, 0 - 9}

NoSummary == [total |-> 0, passed |-> 0, failed |-> 0, skipped |-> 0]

\* line 37: (name, None)
SkippedResult(name) == [name |-> name, isNone |-> TRUE, code |-> 0]

\* lines 48, 53, 56: (name, code)
CodeResult(name, code) == [name |-> name, isNone |-> FALSE, code |-> code]

\* the check the for loop of line 32 is at
NextCheck == CHECKS[Len(results) + 1]

\* skipped checks counted as failed
CountNotPassed(res) ==
    Cardinality({ i \in 1..Len(res) : res[i].isNone \/ res[i].code # 0 })

\* lines 67-75: failed
CountFailed(res) ==
    Cardinality({ i \in 1..Len(res) : ~res[i].isNone /\ res[i].code # 0 })

\* line 80: sum(1 for _, c in results if c == 0)
CountPassed(res) ==
    Cardinality({ i \in 1..Len(res) : ~res[i].isNone /\ res[i].code = 0 })

\* line 82: sum(1 for _, c in results if c is None)
CountSkipped(res) == Cardinality({ i \in 1..Len(res) : res[i].isNone })

\* line 88
RunExitCode(failed) == IF failed > 0 THEN 1 ELSE 0

RunUnchanged ==
    UNCHANGED <<check, findings, fatal, errors, warnings, metaVars, guidVars,
                files_scanned, parseVars, layerVars, sceneVars, present>>

\* lines 20-30
RunStart ==
    /\ check = "run_all" /\ pc = "start"
    /\ results' = <<>>
    /\ pc' = "checks"
    /\ UNCHANGED <<ran, summary, exitCode>>
    /\ RunUnchanged

\* lines 32-38: the script is not there
RunSkip ==
    /\ check = "run_all" /\ pc = "checks" /\ Len(results) < Len(CHECKS)
    /\ NextCheck.script \notin present
    /\ results' = Append(results, SkippedResult(NextCheck.name))
    /\ ran' = Append(ran, [script |-> NextCheck.script, outcome |-> "missing",
                           returncode |-> 0])
    /\ UNCHANGED <<pc, summary, exitCode>>
    /\ RunUnchanged

\* lines 32-49: the child process ran to its end
RunCompleted(returncode) ==
    /\ check = "run_all" /\ pc = "checks" /\ Len(results) < Len(CHECKS)
    /\ NextCheck.script \in present
    /\ results' = Append(results, CodeResult(NextCheck.name, returncode))
    /\ ran' = Append(ran, [script |-> NextCheck.script, outcome |-> "exit",
                           returncode |-> returncode])
    /\ UNCHANGED <<pc, summary, exitCode>>
    /\ RunUnchanged

\* lines 32-46, 50-53: subprocess.TimeoutExpired
RunTimeout ==
    /\ check = "run_all" /\ pc = "checks" /\ Len(results) < Len(CHECKS)
    /\ NextCheck.script \in present
    /\ results' = Append(results, CodeResult(NextCheck.name, 1))
    /\ ran' = Append(ran, [script |-> NextCheck.script, outcome |-> "timeout",
                           returncode |-> 0])
    /\ UNCHANGED <<pc, summary, exitCode>>
    /\ RunUnchanged

\* lines 32-46, 54-56: any other Exception
RunException ==
    /\ check = "run_all" /\ pc = "checks" /\ Len(results) < Len(CHECKS)
    /\ NextCheck.script \in present
    /\ results' = Append(results, CodeResult(NextCheck.name, 1))
    /\ ran' = Append(ran, [script |-> NextCheck.script, outcome |-> "exception",
                           returncode |-> 0])
    /\ UNCHANGED <<pc, summary, exitCode>>
    /\ RunUnchanged

\* lines 60-88: the loop is over, the summary is printed and main returns
RunSummary ==
    /\ check = "run_all" /\ pc = "checks" /\ Len(results) = Len(CHECKS)
    /\ summary' = [total   |-> Len(results),
                   passed  |-> CountPassed(results),
                   failed  |-> CountFailed(results),
                   skipped |-> CountSkipped(results)]
    /\ exitCode' = RunExitCode(CountFailed(results))
    /\ pc' = "done"
    /\ UNCHANGED <<results, ran>>
    /\ RunUnchanged

\* the scripts that exist in the directory of run_all.py
ScriptSets == SUBSET { CHECKS[i].script : i \in 1..Len(CHECKS) }

(***************************************************************************)
(* The runs                                                                *)
(***************************************************************************)
IdleCommon ==
    /\ pc = "start"
    /\ findings = <<>>
    /\ fatal = FALSE
    /\ errors = 0
    /\ warnings = 0
    /\ exitCode = NoCode
    /\ files_scanned = 0

IdleMeta ==
    /\ stack = <<>>
    /\ missing = EmptyBag
    /\ orphaned = EmptyBag

IdleGuid ==
    /\ known_guids = {}
    /\ has_package_cache = FALSE
    /\ scanned = <<>>

IdleParse ==
    /\ layers = {}
    /\ sorting_layers = {}
    /\ tags = {}
    /\ in_tags = FALSE
    /\ in_layers = FALSE
    /\ in_sorting = FALSE
    /\ consumed = <<>>

IdleScene ==
    /\ idx = 0
    /\ probes = <<>>

IdleRun ==
    /\ present = {}
    /\ results = <<>>
    /\ ran = <<>>
    /\ summary = NoSummary

NoTree     == [p \in {} |-> "file"]
NoProject  == [assets |-> FALSE, scanRoot |-> FALSE, packages |-> FALSE, cache |-> FALSE,
               assetsMeta |-> {}, packagesMeta |-> {}, cacheMeta |-> {}]
NoSettings == [exists |-> FALSE, lines |-> <<>>, scriptsDir |-> FALSE]
NoDisk     == [p \in ScenePaths |-> [scene |-> FALSE, meta |-> FALSE, guid |-> NoGuid]]

InitMeta ==
    /\ check = "meta"
    /\ tree \in Trees \cup NoAssetsTrees
    /\ project = NoProject /\ settings = NoSettings /\ scripts = <<>>
    /\ manifest = NoManifest /\ disk = NoDisk
    /\ IdleCommon /\ IdleMeta /\ IdleGuid /\ IdleParse /\ IdleScene /\ IdleRun

InitGuid ==
    /\ check = "guid"
    /\ project \in Projects
    /\ tree = NoTree /\ settings = NoSettings /\ scripts = <<>>
    /\ manifest = NoManifest /\ disk = NoDisk
    /\ IdleCommon /\ IdleMeta /\ IdleGuid /\ IdleParse /\ IdleScene /\ IdleRun

InitLayer ==
    /\ check = "layer"
    /\ settings \in SettingsFiles
    /\ scripts = <<>>
    /\ tree = NoTree /\ project = NoProject
    /\ manifest = NoManifest /\ disk = NoDisk
    /\ IdleCommon /\ IdleMeta /\ IdleGuid /\ IdleParse /\ IdleScene /\ IdleRun

InitScene ==
    /\ check = "scene"
    /\ manifest \in Manifests
    /\ disk \in [ScenePaths -> DiskStates]
    /\ tree = NoTree /\ project = NoProject /\ settings = NoSettings /\ scripts = <<>>
    /\ IdleCommon /\ IdleMeta /\ IdleGuid /\ IdleParse /\ IdleScene /\ IdleRun

\* parse_tag_manager alone, line by line, on any sequence of lines
InitParse ==
    /\ check = "parse"
    /\ pc = "lines"
    /\ findings = <<>> /\ fatal = FALSE /\ errors = 0 /\ warnings = 0
    /\ exitCode = NoCode /\ files_scanned = 0
    /\ tree = NoTree /\ project = NoProject /\ settings = NoSettings /\ scripts = <<>>
    /\ manifest = NoManifest /\ disk = NoDisk
    /\ IdleMeta /\ IdleGuid /\ IdleParse /\ IdleScene /\ IdleRun

\* run_all.main, with any subset of the scripts present
InitRun ==
    /\ check = "run_all"
    /\ present \in ScriptSets
    /\ results = <<>> /\ ran = <<>> /\ summary = NoSummary
    /\ tree = NoTree /\ project = NoProject /\ settings = NoSettings /\ scripts = <<>>
    /\ manifest = NoManifest /\ disk = NoDisk
    /\ IdleCommon /\ IdleMeta /\ IdleGuid /\ IdleParse /\ IdleScene

NextMeta  == MetaStart \/ MetaWalkDir \/ MetaReport
NextGuid  == GuidStart \/ (\E f \in ScanCatalogue : GuidScanFile(f)) \/ GuidFinish
NextLayer == LayerParse \/ (\E f \in ScriptCatalogue : LayerScanScript(f)) \/ LayerFinish
NextScene == SceneStart \/ SceneEntry \/ SceneFinish
NextParse == (\E line \in Lines : ParseStep(line)) \/ ParseReturn

NextRun ==
    \/ RunStart \/ RunSkip \/ (\E returncode \in ReturnCodes : RunCompleted(returncode))
    \/ RunTimeout \/ RunException \/ RunSummary

SpecMeta  == InitMeta /\ [][NextMeta]_vars
SpecGuid  == InitGuid /\ [][NextGuid]_vars
SpecLayer == InitLayer /\ [][NextLayer]_vars
SpecScene == InitScene /\ [][NextScene]_vars
SpecParse == InitParse /\ [][NextParse]_vars
SpecRun   == InitRun /\ [][NextRun]_vars

\* any one of the four checks, on any input
Init == InitMeta \/ InitGuid \/ InitLayer \/ InitScene
Next ==
    \/ MetaStart \/ MetaWalkDir \/ MetaReport
    \/ GuidStart \/ (\E f \in ScanCatalogue : GuidScanFile(f)) \/ GuidFinish
    \/ LayerParse \/ (\E f \in ScriptCatalogue : LayerScanScript(f)) \/ LayerFinish
    \/ SceneStart \/ SceneEntry \/ SceneFinish
Spec == Init /\ [][Next]_vars


(***************************************************************************)
(* Properties                                                              *)
(***************************************************************************)
HasError(fs) == \E i \in 1..Len(fs) : fs[i].sev = "error"

\* C1: for each of the four checks and every input, the check returns 1 exactly
\* when it emitted at least one error finding or hit a fatal precondition failure,
\* and 0 otherwise; warnings alone never make the exit code non-zero.
C1_ExitCode ==
    /\ pc # "done" => exitCode = NoCode
    /\ pc = "done" => /\ exitCode \in {0, 1}
                      /\ exitCode = 1 <=> (fatal \/ HasError(findings))

\* a finished run with warnings and exit code 0
C1_Witness ==
    /\ pc = "done"
    /\ exitCode = 0
    /\ CountSev(findings, "warning") >= 2
    /\ ~fatal

\* the identifiers that never need resolving: all zeros, or sixteen leading zeros
ReservedGuid(g) == \A i \in 1..16 : g[i] = "0"

Occurrences(sq, x) == Cardinality({i \in 1..Len(sq) : sq[i] = x})

GuidFindingsFor(k, n, g) ==
    Cardinality({i \in 1..Len(findings) :
                    /\ findings[i].file = <<k, scanned[k].name>>
                    /\ findings[i].line = n
                    /\ findings[i].guid = g})

WasScanned(f) == Lower(f.ext) \in SCANNABLE_EXTENSIONS /\ f.readable

RefGuids == {NULL_GUID, BuiltinGuid, NearNullGuid, GuidA, GuidB}

AllScannedRefsReserved ==
    \A k \in 1..Len(scanned) : \A n \in 1..Len(scanned[k].lines) :
        \A i \in 1..Len(scanned[k].lines[n]) : ReservedGuid(scanned[k].lines[n][i])

\* C3: scan_file_for_guids never returns the null identifier or an identifier with
\* the built-in prefix, for every index (the empty one included) and either value of
\* the coverage flag; such references produce no finding and leave the exit code 0.
C3_ReservedNeverBroken ==
    check = "guid" =>
        /\ \A k \in 1..Len(scanned) : \A known \in {known_guids, {}} :
              LET broken == scan_file_for_guids(scanned[k], known)
              IN  \A i \in 1..Len(broken) : ~ReservedGuid(broken[i].guid)
        /\ \A i \in 1..Len(findings) : ~ReservedGuid(findings[i].guid)
        /\ (AllScannedRefsReserved /\ ~fatal) =>
              /\ findings = <<>>
              /\ errors = 0 /\ warnings = 0
              /\ exitCode \in {NoCode, 0}

\* a file referring to the null and a built-in identifier was scanned against an
\* empty index with full coverage, and the run ended clean
C3_Witness ==
    /\ check = "guid" /\ pc = "done"
    /\ known_guids = {}
    /\ has_package_cache
    /\ \E k \in 1..Len(scanned) :
          /\ WasScanned(scanned[k])
          /\ \E n \in 1..Len(scanned[k].lines) : Occurrences(scanned[k].lines[n], NULL_GUID) > 0
          /\ \E n \in 1..Len(scanned[k].lines) : Occurrences(scanned[k].lines[n], BuiltinGuid) > 0
    /\ findings = <<>>
    /\ exitCode = 0


\* ---- check_meta_files
BelowAssets == { p \in DOMAIN tree : Len(p) >= 2 }

LastName(p) == p[Len(p)]

\* files and directories that need a sidecar; the sidecar files themselves
ContentEntries == { p \in BelowAssets : tree[p] = "dir" \/ ~EndsWithMeta(LastName(p)) }
Sidecars       == { p \in BelowAssets : tree[p] = "file" /\ EndsWithMeta(LastName(p)) }

SidecarOf(p)   == Append(Parent(p), LastName(p) \o <<".meta">>)
HasSidecar(p)  == SidecarOf(p) \in DOMAIN tree

\* the entry is a directory named in SKIP_DIRS, or lies inside one
UnderSkipped(p) ==
    \E k \in 2..Len(p) : tree[SubSeq(p, 1, k)] = "dir" /\ p[k] \in SKIP_DIRS

FindingsFor(p, sev) ==
    Cardinality({i \in 1..Len(findings) : findings[i].file = p /\ findings[i].sev = sev})

MetaDone == check = "meta" /\ pc = "done" /\ ~fatal

\* C4 as stated: every content entry without a sidecar gives exactly one error, and
\* every directory, whatever its name, needs its own sidecar.
C4_Original ==
    MetaDone => \A p \in ContentEntries : ~HasSidecar(p) => FindingsFor(p, "error") = 1

\* C4 amended: a content entry gives exactly one "missing sidecar" error if it has
\* no sidecar and is neither a directory named in SKIP_DIRS nor inside one, and no
\* error otherwise; directories that are not skipped are checked like files.
C4_MissingSidecar ==
    MetaDone =>
        /\ \A p \in ContentEntries :
              FindingsFor(p, "error") = (IF ~HasSidecar(p) /\ ~UnderSkipped(p) THEN 1 ELSE 0)
        /\ \A i \in 1..Len(findings) :
              findings[i].sev = "error" =>
                  findings[i].file \in ContentEntries /\ findings[i].msg = "Missing .meta file"

\* a file and a directory, neither skipped, both without a sidecar, one error each
C4_Witness ==
    /\ MetaDone
    /\ \E p, q \in ContentEntries :
          /\ tree[p] = "file" /\ tree[q] = "dir"
          /\ ~HasSidecar(p) /\ ~HasSidecar(q)
          /\ ~UnderSkipped(p) /\ ~UnderSkipped(q)
          /\ FindingsFor(p, "error") = 1 /\ FindingsFor(q, "error") = 1

\* the content entry a sidecar belongs to does not exist
Orphan(p) == Append(Parent(p), StripMeta(LastName(p))) \notin DOMAIN tree

\* C5 as stated: every sidecar without its content entry gives exactly one warning
\* and no error; a tree with no other defect exits 0.
C5_Original ==
    MetaDone =>
        /\ \A p \in Sidecars :
              Orphan(p) => FindingsFor(p, "warning") = 1 /\ FindingsFor(p, "error") = 0
        /\ (\A p \in ContentEntries : HasSidecar(p)) => exitCode = 0

\* C5 amended: a sidecar file gives exactly one "orphaned sidecar" warning if its
\* content entry does not exist, its name is more than the bare suffix ".meta", and
\* it does not lie inside a directory named in SKIP_DIRS, and no warning otherwise;
\* it never gives an error; a tree in which every content entry has its sidecar
\* exits 0.
C5_OrphanedSidecar ==
    MetaDone =>
        /\ \A p \in Sidecars :
              /\ FindingsFor(p, "warning") =
                    (IF Orphan(p) /\ LastName(p) # <<".meta">> /\ ~UnderSkipped(p)
                     THEN 1 ELSE 0)
              /\ FindingsFor(p, "error") = 0
        /\ \A i \in 1..Len(findings) :
              findings[i].sev = "warning" => findings[i].file \in Sidecars
        /\ (\A p \in ContentEntries : HasSidecar(p)) => exitCode = 0

\* two orphaned sidecars, one of them in a subdirectory, and nothing else wrong
C5_Witness ==
    /\ MetaDone
    /\ \E p, q \in Sidecars :
          /\ Len(p) = 2 /\ Len(q) = 3
          /\ Orphan(p) /\ Orphan(q)
          /\ FindingsFor(p, "warning") = 1 /\ FindingsFor(q, "warning") = 1
    /\ \A p \in ContentEntries : HasSidecar(p)
    /\ exitCode = 0

\* ---- check_scene_build_settings
EntryErrors(k) ==
    {i \in 1..Len(findings) : findings[i].sev = "error" /\ findings[i].entry = k}

ProbesOf(k) ==
    LET mine(pr) == pr[1] = k
        sel == SelectSeq(probes, mine)
    IN  [i \in 1..Len(sel) |-> sel[i][2]]

\* C6: the manifest's entries are processed in declared order, each contributes at
\* most one error; a missing scene file gives one error and no sidecar or identifier
\* check; a missing sidecar gives one error and no identifier comparison; a differing
\* identifier gives one error naming both identifiers; an error never stops the
\* later entries from being checked.
C6_SceneEntries ==
    check = "scene" =>
        /\ \A k \in 1..idx :
              LET e == manifest.scenes[k]
                  d == disk[e.path]
              IN  /\ Cardinality(EntryErrors(k)) <= 1
                  /\ ~d.scene =>
                        /\ Cardinality(EntryErrors(k)) = 1
                        /\ ProbesOf(k) = <<"exists_scene">>
                  /\ (d.scene /\ ~d.meta) =>
                        /\ Cardinality(EntryErrors(k)) = 1
                        /\ ProbesOf(k) = <<"exists_scene", "exists_meta">>
                  /\ (d.scene /\ d.meta /\ d.guid # NoGuid /\ d.guid # e.guid) =>
                        /\ Cardinality(EntryErrors(k)) = 1
                        /\ \A i \in EntryErrors(k) :
                              /\ findings[i].expected = e.guid
                              /\ findings[i].found = d.guid
                              /\ findings[i].path = e.path
                  /\ ProbesOf(k) # <<>>
        /\ \A i, j \in 1..Len(findings) : i < j => findings[i].entry < findings[j].entry
        /\ \A i, j \in 1..Len(probes) : i < j => probes[i][1] <= probes[j][1]
        /\ \A i \in 1..Len(probes) : probes[i][1] <= idx
        /\ (pc = "done" /\ ~fatal) => idx = Len(manifest.scenes)

\* the first entry's scene file is missing and the second entry, checked all the
\* same, has a sidecar with another identifier
C6_Witness ==
    /\ check = "scene" /\ pc = "done"
    /\ Len(manifest.scenes) = 2 /\ idx = 2
    /\ ~disk[manifest.scenes[1].path].scene
    /\ LET d == disk[manifest.scenes[2].path]
       IN  d.scene /\ d.meta /\ d.guid # NoGuid /\ d.guid # manifest.scenes[2].guid
    /\ Len(findings) = 2
    /\ exitCode = 1


\* ---- check_layer_consistency: scan_scripts
InEditorFolder(path) == \E i \in 1..Len(path) : path[i] = "Editor" \/ path[i] = "editor"

ScriptRead(f) == f.ext = ".cs" /\ f.readable

PathOf(f) == f.dir \o <<f.file>>

\* findings of script number k
ScriptFindingsOf(k) == {i \in 1..Len(findings) : findings[i].file[1] = k}

NamedFindings(k, kind, name, sev) ==
    Cardinality({i \in ScriptFindingsOf(k) :
                    /\ findings[i].kind = kind
                    /\ findings[i].name = name
                    /\ findings[i].sev = sev})

\* how often script k calls CompareTag with this name
TagCalls(k, name) ==
    Cardinality({<<n, r>> \in (1..4) \X (1..4) :
                    /\ n <= Len(scripts[k].lines)
                    /\ r <= Len(scripts[k].lines[n])
                    /\ scripts[k].lines[n][r].shape = "CompareTag"
                    /\ scripts[k].lines[n][r].args[1] = name})

\* C7: the severity of every finding of scan_scripts is decided by the file's path
\* alone: warnings only (counted as warnings, exit code untouched) for a file with
\* an editor-only path segment, errors only for every other file; with tag
\* Collectible declared, CompareTag("Collectible") gives nothing and
\* CompareTag("Hazard") one error outside and one warning inside an editor folder.
C7_SeverityByPath ==
    check = "layer" =>
        /\ \A i \in 1..Len(findings) :
              /\ findings[i].file[2] = PathOf(scripts[findings[i].file[1]])
              /\ findings[i].sev =
                    (IF InEditorFolder(findings[i].file[2]) THEN "warning" ELSE "error")
        /\ warnings = CountSev(findings, "warning")
        /\ errors = CountSev(findings, "error")
        /\ (\A k \in 1..Len(scripts) : InEditorFolder(PathOf(scripts[k]))) =>
              errors = 0 /\ ((pc = "done" /\ ~fatal) => exitCode = 0)
        /\ (<<"Collectible">> \in tags /\ <<"Hazard">> \notin tags) =>
              \A k \in 1..Len(scripts) :
                 ScriptRead(scripts[k]) =>
                    LET sev   == IF InEditorFolder(PathOf(scripts[k])) THEN "warning" ELSE "error"
                        other == IF InEditorFolder(PathOf(scripts[k])) THEN "error" ELSE "warning"
                    IN  /\ NamedFindings(k, "Tag", <<"Collectible">>, sev) = 0
                        /\ NamedFindings(k, "Tag", <<"Collectible">>, other) = 0
                        /\ NamedFindings(k, "Tag", <<"Hazard">>, sev) = TagCalls(k, <<"Hazard">>)
                        /\ NamedFindings(k, "Tag", <<"Hazard">>, other) = 0

\* CompareTag("Hazard") was found once outside and once inside an editor folder
C7_Witness ==
    /\ check = "layer" /\ pc = "done"
    /\ <<"Collectible">> \in tags
    /\ \E k, m \in 1..Len(scripts) :
          /\ ~InEditorFolder(PathOf(scripts[k])) /\ InEditorFolder(PathOf(scripts[m]))
          /\ TagCalls(k, <<"Collectible">>) = 1
          /\ NamedFindings(k, "Tag", <<"Hazard">>, "error") = 1
          /\ NamedFindings(m, "Tag", <<"Hazard">>, "warning") = 1
    /\ exitCode = 1

ScriptNames ==
    { <<"Default">>, <<"Player">>, <<"Enemy">>, <<"Water">>, <<"Collectible">>,
      <<"Hazard">>, <<"Foreground">> }

AlwaysAvailableTags ==
    { <<"Untagged">>, <<"Respawn">>, <<"Finish">>, <<"EditorOnly">>, <<"MainCamera">>,
      <<"Player">>, <<"GameController">>, <<"Enemy">> }

ShapesOf(kind) ==
    CASE kind = "Layer" -> {"NameToLayer", "GetMask"}
      [] kind = "Sorting layer" -> {"sortingLayerName"}
      [] kind = "Tag" -> {"CompareTag"}

DeclaredFor(kind) ==
    CASE kind = "Layer" -> layers
      [] kind = "Sorting layer" -> sorting_layers
      [] kind = "Tag" -> tags \cup AlwaysAvailableTags

\* how often line n of script k names `name` in a reference of this kind: every
\* quoted argument of GetMask counts, the single argument of the other shapes
Extracted(k, n, kind, name) ==
    Cardinality({<<r, a>> \in (1..4) \X (1..4) :
                    /\ r <= Len(scripts[k].lines[n])
                    /\ scripts[k].lines[n][r].shape \in ShapesOf(kind)
                    /\ a <= Len(scripts[k].lines[n][r].args)
                    /\ scripts[k].lines[n][r].args[a] = name})

LineFindingsOf(k, n, kind, name) ==
    Cardinality({i \in ScriptFindingsOf(k) :
                    /\ findings[i].line = n
                    /\ findings[i].kind = kind
                    /\ findings[i].name = name})

\* C8: every name extracted from a reference gives exactly one finding if and only
\* if it is not in the set it is checked against: the parsed layers for NameToLayer
\* and every argument of GetMask, the parsed sorting layers for sortingLayerName,
\* the parsed tags together with the built-in allowlist for CompareTag, the
\* allowlist applying to tags only.
C8_OneFindingPerUndefinedName ==
    check = "layer" =>
        \A k \in 1..Len(scripts) :
           /\ ~ScriptRead(scripts[k]) => ScriptFindingsOf(k) = {}
           /\ ScriptRead(scripts[k]) =>
                 \A n \in 1..Len(scripts[k].lines) :
                 \A kind \in {"Layer", "Sorting layer", "Tag"} :
                 \A name \in ScriptNames :
                    LineFindingsOf(k, n, kind, name) =
                        (IF name \in DeclaredFor(kind) THEN 0
                         ELSE Extracted(k, n, kind, name))

\* layers {Default, Player}: NameToLayer("Enemy") gives one finding,
\* GetMask("Default", "Player") none
C8_Witness ==
    /\ check = "layer" /\ pc = "done"
    /\ layers = { <<"Default">>, <<"Player">> }
    /\ \E k \in 1..Len(scripts) :
          /\ scripts[k].lines[1] = << [shape |-> "NameToLayer", args |-> << <<"Enemy">> >>] >>
          /\ scripts[k].lines[2] =
                << [shape |-> "GetMask", args |-> << <<"Default">>, <<"Player">> >>] >>
          /\ LineFindingsOf(k, 1, "Layer", <<"Enemy">>) = 1
          /\ Cardinality(ScriptFindingsOf(k)) = 1

\* ---- check_layer_consistency: parse_tag_manager
Stripped(line) ==
    LET first == CHOOSE i \in 1..(Len(line) + 1) :
                    /\ \A j \in 1..(i - 1) : line[j] = " "
                    /\ (i <= Len(line) => line[i] # " ")
        last  == CHOOSE i \in 0..Len(line) :
                    /\ \A j \in (i + 1)..Len(line) : line[j] = " "
                    /\ (i >= 1 => line[i] # " ")
    IN  SubSeq(line, first, last)

IsTagsHeader(line)      == Len(Stripped(line)) >= 1 /\ Stripped(line)[1] = "tags:"
IsEmptyTagsHeader(line) == Stripped(line) = <<"tags:", " ", "[]">>
IsItemizedTagsHeader(line) ==
    IsTagsHeader(line) /\ \A i \in 1..Len(line) : line[i] # "[]"
IsLayersHeader(line)    == Stripped(line) = <<"layers:">>
IsAnyHeader(line) ==
    \/ IsTagsHeader(line)
    \/ IsLayersHeader(line)
    \/ Stripped(line) = <<"m_SortingLayers:">>
    \/ (Len(Stripped(line)) >= 1 /\ Stripped(line)[1] = "m_RenderingLayers:")

\* "- <value>", or the bare dash of an unnamed slot
IsBullet(line) ==
    LET t == Stripped(line)
    IN  Len(t) >= 1 /\ t[1] = "-" /\ (Len(t) = 1 \/ t[2] = " ")

BulletValue(line) ==
    LET t == Stripped(line) IN IF Len(t) >= 3 THEN Stripped(SubSeq(t, 3, Len(t))) ELSE <<>>

\* C9: the header 'tags: []' leaves the parser in state none, bulleted lines after
\* it add nothing to the tag set, and a file whose only tags header is 'tags: []'
\* yields an empty tag set whatever its other lines are.
C9_EmptyTagsLiteral ==
    check = "parse" =>
        /\ (consumed # <<>> /\ IsEmptyTagsHeader(consumed[Len(consumed)])) =>
              ~in_tags /\ ~in_layers /\ ~in_sorting
        /\ \A j \in 1..Len(consumed) :
              (/\ IsEmptyTagsHeader(consumed[j])
               /\ \A m \in (j + 1)..Len(consumed) : ~IsTagsHeader(consumed[m])) =>
                  /\ ~in_tags
                  /\ tags = parse_tag_manager(SubSeq(consumed, 1, j)).tags
        /\ (\A j \in 1..Len(consumed) :
               IsTagsHeader(consumed[j]) => IsEmptyTagsHeader(consumed[j])) =>
              tags = {}

\* 'tags: []' followed by two bulleted lines: no tag was added
C9_Witness ==
    /\ check = "parse"
    /\ Len(consumed) = 3
    /\ IsEmptyTagsHeader(consumed[1])
    /\ IsBullet(consumed[2]) /\ BulletValue(consumed[2]) # <<>>
    /\ IsBullet(consumed[3]) /\ BulletValue(consumed[3]) # <<>>
    /\ tags = {}
    /\ ~in_tags

\* C10: for a file with an itemized tags header, a non-empty run of bulleted lines,
\* then a layers header and its bulleted lines, the tag set is exactly the non-empty
\* values bulleted between the two headers and the layer set exactly the non-empty
\* values bulleted after the layers header: no value ends up in the other set.
C10_NoCrossContamination ==
    check = "parse" =>
        \A a, b \in 1..Len(consumed) :
            (/\ a + 1 < b
             /\ \A j \in 1..(a - 1) : ~IsAnyHeader(consumed[j])
             /\ IsItemizedTagsHeader(consumed[a])
             /\ \A j \in (a + 1)..(b - 1) : IsBullet(consumed[j])
             /\ \E j \in (a + 1)..(b - 1) : BulletValue(consumed[j]) # <<>>
             /\ IsLayersHeader(consumed[b])
             /\ \A j \in (b + 1)..Len(consumed) : IsBullet(consumed[j])) =>
                /\ tags = { BulletValue(consumed[j]) : j \in (a + 1)..(b - 1) } \ { <<>> }
                /\ layers = { BulletValue(consumed[j]) : j \in (b + 1)..Len(consumed) } \ { <<>> }
                /\ sorting_layers = {}

\* tags: / - Default / layers: / - Player  gives tags {Default} and layers {Player}
C10_Witness ==
    /\ check = "parse"
    /\ Len(consumed) = 4
    /\ IsItemizedTagsHeader(consumed[1])
    /\ IsBullet(consumed[2]) /\ BulletValue(consumed[2]) = <<"Default">>
    /\ IsLayersHeader(consumed[3])
    /\ IsBullet(consumed[4]) /\ BulletValue(consumed[4]) = <<"Player">>
    /\ tags = { <<"Default">> }
    /\ layers = { <<"Player">> }

\* ---- parse_tag_manager: the layers section
IsIndented(line) == line # <<>> /\ line[1] = " "

\* the parser after the first n consumed lines
ParserAfter(n) == parse_tag_manager(SubSeq(consumed, 1, n))

NoLayersHeaderIn(a, b) == \A m \in a..b : ~IsLayersHeader(consumed[m])

\* a line the layers section treats as content: its stripped text starts with a dash
StartsWithDash(line) == Len(Stripped(line)) >= 1 /\ Stripped(line)[1] = "-"

\* C11: while in_layers, a bulleted line with a non-empty value adds that value to
\* the layer set and keeps the state; an unnamed slot adds nothing (the empty string
\* is never a layer) and keeps the state; a line that is neither bulleted nor
\* indented nor a section header leaves in_layers, and from then on bulleted lines
\* add nothing to the layer set until the next layers header.
C11_Original ==
    check = "parse" =>
        /\ <<>> \notin layers
        /\ \A j \in 1..Len(consumed) :
              LET line == consumed[j]
                  pre  == ParserAfter(j - 1)
                  post == ParserAfter(j)
              IN  pre.in_layers =>
                    /\ (IsBullet(line) /\ BulletValue(line) # <<>>) =>
                          post.in_layers /\ post.layers = pre.layers \cup {BulletValue(line)}
                    /\ (IsBullet(line) /\ BulletValue(line) = <<>>) =>
                          post.in_layers /\ post.layers = pre.layers
                    /\ (~IsBullet(line) /\ ~IsIndented(line) /\ ~IsAnyHeader(line)) =>
                          /\ ~post.in_layers
                          /\ \A m \in (j + 1)..Len(consumed) :
                                (IsBullet(consumed[m]) /\ NoLayersHeaderIn(j + 1, m)) =>
                                    ParserAfter(m).layers = ParserAfter(m - 1).layers

\* what the layers section does: a line whose stripped text starts with a dash keeps
\* in_layers (adding its value when it is a bullet with one), and every other line
\* that is not a section header leaves in_layers, indented or not.
C11_LayersSection ==
    check = "parse" =>
        /\ <<>> \notin layers
        /\ \A j \in 1..Len(consumed) :
              LET line == consumed[j]
                  pre  == ParserAfter(j - 1)
                  post == ParserAfter(j)
              IN  (pre.in_layers /\ ~IsAnyHeader(line)) =>
                    /\ post.in_layers = StartsWithDash(line)
                    /\ post.layers = pre.layers \cup
                          (IF IsBullet(line) /\ BulletValue(line) # <<>>
                           THEN {BulletValue(line)} ELSE {})
                    /\ ~StartsWithDash(line) =>
                          \A m \in (j + 1)..Len(consumed) :
                              NoLayersHeaderIn(j + 1, m) =>
                                  ParserAfter(m).layers = post.layers

\* layers: / --- / - Player : the document separator did not end the layers
\* section, and the bullet after it became a layer
C11_Witness ==
    /\ check = "parse"
    /\ Len(consumed) = 3
    /\ IsLayersHeader(consumed[1])
    /\ consumed[2] = <<"-", "-", "-">>
    /\ IsBullet(consumed[3]) /\ BulletValue(consumed[3]) = <<"Player">>
    /\ in_layers
    /\ layers = { <<"Player">> }

\* ---- parse_tag_manager: the three flags
FlagsSet(st) ==
    (IF st.in_tags THEN 1 ELSE 0) + (IF st.in_layers THEN 1 ELSE 0)
        + (IF st.in_sorting THEN 1 ELSE 0)

\* the number of the three sets that line j added an entry to
SetsGrownBy(j) ==
    LET pre  == ParserAfter(j - 1)
        post == ParserAfter(j)
    IN  (IF post.tags # pre.tags THEN 1 ELSE 0)
          + (IF post.layers # pre.layers THEN 1 ELSE 0)
          + (IF post.sorting_layers # pre.sorting_layers THEN 1 ELSE 0)

\* C12: after any prefix of any sequence of lines at most one of in_tags, in_layers
\* and in_sorting is true, and no line has been added to more than one of the tag
\* set, the layer set and the sorting layer set.
C12_AtMostOneFlag ==
    check = "parse" =>
        /\ FlagsSet(ParserState) <= 1
        /\ \A j \in 1..Len(consumed) :
              /\ FlagsSet(ParserAfter(j)) <= 1
              /\ SetsGrownBy(j) <= 1

\* layers: / - Default / m_SortingLayers: / - name: Default : the parser went
\* through in_layers into in_sorting, and each content line grew one set only
C12_Witness ==
    /\ check = "parse"
    /\ Len(consumed) = 4
    /\ IsLayersHeader(consumed[1])
    /\ consumed[2] = Bullet("Default")
    /\ Stripped(consumed[3]) = <<"m_SortingLayers:">>
    /\ consumed[4] = Indent(<<"-", " ", "name:", " ", "Default">>)
    /\ in_sorting /\ ~in_layers /\ ~in_tags
    /\ layers = { <<"Default">> }
    /\ sorting_layers = { <<"Default">> }
    /\ SetsGrownBy(2) = 1 /\ SetsGrownBy(4) = 1

\* ---- run_all: main
RecordedFailed(r)  == ~r.isNone /\ r.code # 0
RecordedSkipped(r) == r.isNone
RunDone == check = "run_all" /\ pc = "done"

\* C13: run_all.main attempts every check of CHECKS exactly once, in the listed
\* order, whatever happened to the earlier ones; a timeout or an exception is
\* recorded as a failure and a missing script as a skip; at the end passed + failed
\* + skipped is the number of checks, and the exit code is 1 exactly when some check
\* was recorded as failed (a skipped check never fails the run).
C13_Aggregator ==
    check = "run_all" =>
        /\ Len(results) = Len(ran) /\ Len(results) <= Len(CHECKS)
        /\ \A i \in 1..Len(results) :
              /\ results[i].name = CHECKS[i].name
              /\ ran[i].script = CHECKS[i].script
              /\ ran[i].outcome \in {"timeout", "exception"} => RecordedFailed(results[i])
              /\ RecordedSkipped(results[i]) <=> ran[i].outcome = "missing"
              /\ ran[i].outcome = "missing" <=> CHECKS[i].script \notin present
              /\ ran[i].outcome = "exit" =>
                    (RecordedFailed(results[i]) <=> ran[i].returncode # 0)
        /\ (pc = "checks" /\ Len(results) < Len(CHECKS)) => ENABLED NextRun
        /\ pc = "done" =>
              /\ Len(results) = Len(CHECKS)
              /\ summary.total = Len(CHECKS)
              /\ summary.passed + summary.failed + summary.skipped = Len(CHECKS)
              /\ summary.failed = Cardinality({ i \in 1..Len(results) :
                                                  RecordedFailed(results[i]) })
              /\ summary.skipped = Cardinality({ i \in 1..Len(results) :
                                                   RecordedSkipped(results[i]) })
              /\ exitCode \in {0, 1}
              /\ exitCode = 1 <=> \E i \in 1..Len(results) : RecordedFailed(results[i])

\* a run whose first check timed out, whose second script is missing, whose third
\* raised and whose fourth passed: all four were attempted, 1 passed, 2 failed,
\* 1 skipped, exit code 1
C13_Witness ==
    /\ RunDone
    /\ ran[1].outcome = "timeout"
    /\ ran[2].outcome = "missing"
    /\ ran[3].outcome = "exception"
    /\ ran[4].outcome = "exit" /\ ran[4].returncode = 0
    /\ summary = [total |-> 4, passed |-> 1, failed |-> 2, skipped |-> 1]
    /\ exitCode = 1

\* a run in which every script is missing ends with exit code 0
C13_AllSkippedWitness ==
    /\ RunDone
    /\ present = {}
    /\ summary.skipped = Len(CHECKS)
    /\ exitCode = 0

=============================================================================
